---------------------------- MODULE Spec2Model ----------------------------
(***************************************************************************)
(* Entity lifecycle and event dispatch of EventsHaNode                     *)
(* (src/src/nodes/EventsHaNode.js): registration and deregistration        *)
(* against the hub, the single subscription slot, the event dispatcher and *)
(* the trigger fan-out.                                                    *)
(*                                                                         *)
(* JavaScript values are encoded as strings ("true", "false",              *)
(* "<undefined>", "<null>", ...) so that fields holding values of several  *)
(* JavaScript types stay comparable.  A subscription handle is a number    *)
(* 1..MaxSubs; 0 encodes null in the handle slot.                          *)
(*                                                                         *)
(* An async method is one action up to its await and one action for the    *)
(* continuation that runs when the awaited promise settles.                *)
(***************************************************************************)
EXTENDS Integers, Sequences, FiniteSets, TLC

\* Bounds of the model.
MaxSubs == 2
MaxAwaiting == 2
MaxOutputs == 3
MaxPathLen == 3
MaxValidating == 1

Undefined == "<undefined>"
Null == "<null>"
NotAString == "<number>"
NotABoolean == "<object>"

VARIABLES
    nodeConfig,          \* this.nodeConfig, this.node.type, this.wires, getNodeEntityId()
    removeFromHA,        \* this.removeFromHA
    isEnabled,           \* this.isEnabled (any JavaScript value)
    subscription,        \* this.subscription: 0 (null) or a handle
    registered,          \* this.registered
    closed,              \* onClose has run (the host calls it once)
    isIntegrationLoaded, \* homeAssistant.isIntegrationLoaded
    exposedNodes,        \* server.exposedNodes[node id]
    hubSubs,             \* each handle: "unused", "pending" (subscribe in flight),
                         \* "live", "closing" (unsubscribe invoked), "ended";
                         \* with Prev, of an instance since replaced
    awaiting,            \* removeSubscription calls suspended at their await, per handle
    inFlightAtClose,     \* handles whose subscribe was pending when onClose ran
    validating,          \* handleTriggerMessage calls suspended at validateAsync
    triggerData,         \* data of the automation_triggered events the hub delivers
    schema,              \* the stored configuration a migration step is given
    fx                   \* what the last operation did to its collaborators

vars == <<nodeConfig, removeFromHA, isEnabled, subscription, registered, closed,
          isIntegrationLoaded, exposedNodes, hubSubs, awaiting,
          inFlightAtClose, validating, triggerData, schema, fx>>

Handles == 1..MaxSubs

-----------------------------------------------------------------------------
(* JavaScript helpers *)

\* ToBoolean of an encoded value.
Truthy(v) == v \notin {"false", Undefined, Null, "0", ""}

NodeTypes == {"server-state-changed", "trigger-state"}
EntityTypes == {Undefined, "switch", "sensor"}
StateValues == {"true", "false", "on"}

\* The hub's state cache: homeAssistant.getStates(entityId).
CachedEntities == {"light.cached"}
GetStates(entityId) ==
    IF entityId \in CachedEntities
    THEN [entity_id |-> entityId, state |-> "on"]
    ELSE [entity_id |-> Undefined, state |-> Undefined]

NoFx(op) ==
    [op |-> op, arg |-> Undefined, was |-> Undefined, hubSent |-> <<>>, unsubscribed |-> <<>>,
     sent |-> <<>>, triggered |-> <<>>, status |-> <<>>, errors |-> <<>>,
     completed |-> <<>>, rejected |-> FALSE]

\* The mutable state as one record, so that methods compose.
Cur ==
    [removeFromHA |-> removeFromHA, isEnabled |-> isEnabled,
     subscription |-> subscription, registered |-> registered,
     closed |-> closed, isIntegrationLoaded |-> isIntegrationLoaded,
     exposedNodes |-> exposedNodes, hubSubs |-> hubSubs,
     awaiting |-> awaiting,
     inFlightAtClose |-> inFlightAtClose, validating |-> validating,
     fx |-> fx]

Assign(s) ==
    /\ removeFromHA' = s.removeFromHA
    /\ isEnabled' = s.isEnabled
    /\ subscription' = s.subscription
    /\ registered' = s.registered
    /\ closed' = s.closed
    /\ isIntegrationLoaded' = s.isIntegrationLoaded
    /\ exposedNodes' = s.exposedNodes
    /\ hubSubs' = s.hubSubs
    /\ awaiting' = s.awaiting
    /\ inFlightAtClose' = s.inFlightAtClose
    /\ validating' = s.validating
    /\ fx' = s.fx

Commit(s) == Assign(s) /\ UNCHANGED <<nodeConfig, triggerData, schema>>

\* The state an operation starts in: nothing done yet, and the value
\* isEnabled had before it.
Begin(op) == [Cur EXCEPT !.fx = [NoFx(op) EXCEPT !.was = isEnabled]]

-----------------------------------------------------------------------------
(* Subscription slot *)

\* The unsubscribe promise awaited without a catch.
UnsubNoCatch(outcome) == outcome

\* `.catch(() => {})` on the promise of the unsubscribe call.
UnsubCatch(outcome) == "fulfilled"

\* removeSubscription up to its await: with a handle held the unsubscribe
\* capability is invoked and the call suspends; with none the slot is
\* (re)set to null and the call is complete.
RemoveSubscription(s) ==
    IF s.subscription # 0
    THEN [s EXCEPT !.fx.unsubscribed = Append(@, s.subscription),
                   !.hubSubs[s.subscription] = "closing",
                   !.awaiting[s.subscription] = @ + 1]
    ELSE [s EXCEPT !.subscription = 0,
                   !.fx.completed = Append(@, "removeSubscription")]

\* removeSubscription after its await.
RemoveSubscriptionResume(s, outcome) ==
    IF UnsubCatch(outcome) = "fulfilled"
    THEN [s EXCEPT !.subscription = 0,
                   !.fx.completed = Append(@, "removeSubscription")]
    ELSE [s EXCEPT !.fx.rejected = TRUE]

-----------------------------------------------------------------------------
(* Registration *)

GetDiscoveryPayload(s, remove) ==
    [type |-> "nodered/discovery", component |-> "switch",
     state |-> s.isEnabled, remove |-> remove]

\* EventsNode.registerEntity (base class): FALSE when the node is not
\* exposed, the integration is not loaded, or the node is registered.
SuperRegisterEntity(s) ==
    /\ nodeConfig.exposeToHomeAssistant
    /\ s.isIntegrationLoaded
    /\ ~s.registered

FreeHandles(s) == {h \in Handles : s.hubSubs[h] = "unused"}
NextHandle(s) == CHOOSE h \in FreeHandles(s) : \A g \in FreeHandles(s) : h <= g

\* registerEntity up to its await of subscribeMessage.
RegisterEntity(s) ==
    IF ~SuperRegisterEntity(s) THEN s
    ELSE [s EXCEPT !.hubSubs[NextHandle(s)] = "pending"]

\* registerEntity(status) after subscribeMessage resolved with handle h.
RegisterEntityResolved(s, h, status) ==
    [s EXCEPT !.subscription = h,
              !.fx.status = IF status THEN Append(@, "success:registered")
                            ELSE @,
              !.registered = TRUE]

\* registerEntity without its try/catch: the rejection reaches the caller.
RegisterEntityRejectedThrows(s) == [s EXCEPT !.fx.rejected = TRUE]

\* registerEntity after subscribeMessage rejected.
RegisterEntityRejected(s) ==
    [s EXCEPT !.fx.status = Append(@, "failed:error"),
              !.fx.errors = Append(@, "subscribe")]

\* removeFromHomeAssistant that leaves the removal flag set.
RemoveFromHomeAssistantKeepsFlag(s, nodeRemoved) ==
    IF \/ ~s.isIntegrationLoaded
       \/ (~s.removeFromHA /\ ~nodeRemoved)
       \/ (Truthy(nodeConfig.entityType) /\ nodeConfig.entityType # "switch")
    THEN s
    ELSE LET s1 == [s EXCEPT !.fx.hubSent =
                                 Append(@, GetDiscoveryPayload(s, TRUE))]
             s3 == RemoveSubscription(s1)
         IN  [s3 EXCEPT !.isEnabled = "true"]

\* removeFromHomeAssistant without the entity type in its guard.
RemoveFromHomeAssistantAnyType(s, nodeRemoved) ==
    IF \/ ~s.isIntegrationLoaded
       \/ (~s.removeFromHA /\ ~nodeRemoved)
    THEN s
    ELSE LET s1 == [s EXCEPT !.fx.hubSent =
                                 Append(@, GetDiscoveryPayload(s, TRUE))]
             s2 == [s1 EXCEPT !.removeFromHA = FALSE]
             s3 == RemoveSubscription(s2)
         IN  [s3 EXCEPT !.isEnabled = "true"]

\* removeFromHomeAssistant(nodeRemoved)
RemoveFromHomeAssistant(s, nodeRemoved) ==
    IF \/ ~s.isIntegrationLoaded
       \/ (~s.removeFromHA /\ ~nodeRemoved)
       \/ (Truthy(nodeConfig.entityType) /\ nodeConfig.entityType # "switch")
    THEN s
    ELSE LET s1 == [s EXCEPT !.fx.hubSent =
                                 Append(@, GetDiscoveryPayload(s, TRUE))]
             s2 == [s1 EXCEPT !.removeFromHA = FALSE]
             s3 == RemoveSubscription(s2)
         IN  [s3 EXCEPT !.isEnabled = "true"]

\* init(), run by the constructor
InitNode(s) ==
    IF s.isIntegrationLoaded
    THEN RemoveFromHomeAssistant(RegisterEntity(s), FALSE)
    ELSE s

\* `this.server.exposedNodes[this.id]`: the registry is keyed by node id,
\* and this.id, which the base class sets, is the id of the node, the key
\* the constructor writes at (this.node.id).  The read yields the entry of
\* the node.
ReadRegistry(entry) == entry

\* The flag computed from the new exposure alone.
RemovalNeededWhenHidden(exposure, priorExposed) == exposure = FALSE

\* `!!(exposeToHomeAssistant === false && exposedNodes[id] === true)`
RemovalNeeded(exposure, priorExposed) ==
    exposure = FALSE /\ priorExposed = "true"

\* constructor, before it calls init(): the removal flag, from
\* priorExposed, the value read from the registry at this.id, and the
\* registry write at this.node.id.
Constructor(cfg, priorExposed, loaded) ==
    [removeFromHA |-> RemovalNeeded(cfg.exposeToHomeAssistant, priorExposed),
     isEnabled |-> "true",
     subscription |-> 0,
     registered |-> FALSE,
     closed |-> FALSE,
     isIntegrationLoaded |-> loaded,
     exposedNodes |-> IF cfg.exposeToHomeAssistant THEN "true" ELSE "false",
     hubSubs |-> [h \in Handles |-> "unused"],
     awaiting |-> [h \in Handles |-> 0],
     inFlightAtClose |-> {},
     validating |-> 0,
     fx |-> [NoFx("constructor") EXCEPT !.arg = priorExposed]]


-----------------------------------------------------------------------------
(* Trigger fan-out *)

Digits == {"0", "1", "2"}
PathChars == Digits \cup {",", "x"}
DigitValue(c) ==
    CASE c = "0" -> 0 [] c = "1" -> 1 [] c = "2" -> 2

\* Number results: a natural number, or NaN, which compares false with
\* everything.
NaN == -1
LessOrEqual(a, b) == a # NaN /\ a <= b

\* String.prototype.split(','), on a sequence of characters.
RECURSIVE SplitComma(_, _)
SplitComma(chars, token) ==
    IF chars = <<>> THEN <<token>>
    ELSE IF Head(chars) = ","
         THEN <<token>> \o SplitComma(Tail(chars), <<>>)
         ELSE SplitComma(Tail(chars), Append(token, Head(chars)))

RECURSIVE DecimalValue(_, _)
DecimalValue(token, acc) ==
    IF token = <<>> THEN acc
    ELSE DecimalValue(Tail(token), acc * 10 + DigitValue(Head(token)))

RECURSIVE HexValue(_, _)
HexValue(token, acc) ==
    IF token = <<>> THEN acc
    ELSE HexValue(Tail(token), acc * 16 + DigitValue(Head(token)))

\* A hexadecimal literal: 0x followed by at least one digit.
IsHexLiteral(token) ==
    /\ Len(token) >= 3
    /\ token[1] = "0"
    /\ token[2] = "x"
    /\ \A i \in 3..Len(token) : token[i] \in Digits

\* Number(path): the empty string is 0, a digit string its decimal value,
\* 0x and digits the hexadecimal value, anything else NaN.
ToNumber(token) ==
    IF \A i \in 1..Len(token) : token[i] \in Digits
    THEN DecimalValue(token, 0)
    ELSE IF IsHexLiteral(token)
    THEN HexValue(SubSeq(token, 3, Len(token)), 0)
    ELSE NaN

Includes(paths, x) == \E i \in 1..Len(paths) : paths[i] = x

\* The filter with < in place of <=.
ParsePathsStrict(chars, outputCount) ==
    LET tokens == SplitComma(chars, <<>>)
        nums == [i \in 1..Len(tokens) |-> ToNumber(tokens[i])]
    IN  SelectSeq(nums, LAMBDA n : n # NaN /\ n < outputCount)

\* .split(',').map(Number).filter((path) => path <= outputCount)
ParsePaths(chars, outputCount) ==
    LET tokens == SplitComma(chars, <<>>)
        nums == [i \in 1..Len(tokens) |-> ToNumber(tokens[i])]
    IN  SelectSeq(nums, LAMBDA n : LessOrEqual(n, outputCount))

\* The payload handed to send for the filtered paths.
OnlyPathOne(paths) == Len(paths) = 1 /\ Includes(paths, 1)

FanOutPayload(paths, outputCount, msg) ==
    IF OnlyPathOne(paths)
    THEN [shape |-> "bare", ports |-> <<>>, msg |-> msg]
    ELSE IF Includes(paths, 0)
    THEN [shape |-> "array", ports |-> [i \in 1..outputCount |-> "[msg]"],
          msg |-> msg]
    ELSE [shape |-> "array",
          ports |-> [i \in 1..outputCount |->
                        IF Includes(paths, i) THEN "msg" ELSE "null"],
          msg |-> msg]

\* The schema with skip_condition defaulting to true.
ValidateSkipByDefault(data) ==
    [ok |-> /\ data.entity_id \notin {NotAString, ""}
            /\ data.skip_condition \notin {NotABoolean, Null}
            /\ data.output_path.t # "number"
            /\ (data.output_path.t = "string" => data.output_path.s # <<>>),
     entity_id |-> data.entity_id,
     skip_condition |-> (data.skip_condition \in {"true", Undefined}),
     output_path |-> IF data.output_path.t = "string"
                     THEN data.output_path.s ELSE <<"0">>]

\* The Joi schema: entity_id a string that is not empty, or null;
\* skip_condition a boolean, false when absent; output_path a string that
\* is not empty, '0' when absent.
Validate(data) ==
    [ok |-> /\ data.entity_id \notin {NotAString, ""}
            /\ data.skip_condition \notin {NotABoolean, Null}
            /\ data.output_path.t # "number"
            /\ (data.output_path.t = "string" => data.output_path.s # <<>>),
     entity_id |-> data.entity_id,
     skip_condition |-> (data.skip_condition = "true"),
     output_path |-> IF data.output_path.t = "string"
                     THEN data.output_path.s ELSE <<"0">>]

\* The catch block that reports nothing.
TriggerErrorSilent(s) == s

\* catch (e): setFailed('Error') and node.error('Trigger Error: ...')
TriggerError(s) ==
    [s EXCEPT !.fx.status = Append(@, "failed:Error"),
              !.fx.errors = Append(@, "Trigger Error")]

EventMessage(entity) ==
    [event_type |-> "triggered", entity_id |-> entity.entity_id,
     event |-> [entity_id |-> entity.entity_id,
                old_state |-> entity, new_state |-> entity]]

\* The trigger handler without its gate.
TriggerAlwaysEnabled(s) == TRUE

\* `if (!this.isEnabled) return;`
TriggerEnabled(s) == Truthy(s.isEnabled)

\* handleTriggerMessage(data) up to its await of validateAsync: a disabled
\* node returns, an enabled one suspends before any effect.
HandleTriggerMessage(s, data) ==
    IF ~TriggerEnabled(s) THEN s
    ELSE [s EXCEPT !.validating = @ + 1]

\* handleTriggerMessage(data) after its await: validation, lookup and the
\* effects.  isEnabled is not read again.
HandleTriggerMessageResume(s, data) ==
    LET v == Validate(data)
        entityId == IF Truthy(v.entity_id) THEN v.entity_id
                    ELSE nodeConfig.entityId
        entity == GetStates(entityId)
        eventMessage == EventMessage(entity)
        outputCount == nodeConfig.wires
        paths == ParsePaths(v.output_path, outputCount)
        msg == [topic |-> entityId, payload |-> entity.state,
                data |-> eventMessage.event]
    IN  IF ~v.ok \/ ~Truthy(entityId) \/ entity.entity_id = Undefined
        THEN TriggerError(s)
        ELSE IF ~v.skip_condition
        THEN [s EXCEPT !.fx.triggered = Append(@, eventMessage)]
        ELSE IF outputCount = 0 THEN s
        ELSE IF Len(paths) = 0 THEN s
        ELSE [s EXCEPT
                !.fx.status = Append(@, IF Includes(paths, 1)
                                        THEN "dot" ELSE "ring"),
                !.fx.sent = Append(@, FanOutPayload(paths, outputCount, msg))]

-----------------------------------------------------------------------------
(* Event dispatch *)

\* updateHomeAssistant()
UpdateHomeAssistant(s) ==
    IF ~s.isIntegrationLoaded THEN s
    ELSE [s EXCEPT !.fx.hubSent =
                      Append(@, [type |-> "nodered/entity",
                                 component |-> Undefined,
                                 state |-> s.isEnabled, remove |-> FALSE])]

\* The dispatcher without the default type.
NoDefaultType(type) == type

\* `if (evt.type === undefined) evt.type = 'state_changed'`
DefaultType(type) == IF type = Undefined THEN "state_changed" ELSE type

\* The dispatcher whose switch falls to state_changed for every type it
\* does not know.
OnHaEventMessageAnyType(s, evt) ==
    LET type == DefaultType(evt.type)
    IN  IF ~Truthy(type) THEN s
        ELSE IF type = "automation_triggered"
        THEN HandleTriggerMessage(s, evt.data)
        ELSE UpdateHomeAssistant([s EXCEPT !.isEnabled = evt.state])

\* onHaEventMessage(evt)
OnHaEventMessage(s, evt) ==
    LET type == DefaultType(evt.type)
    IN  IF ~Truthy(type) THEN s
        ELSE IF type = "state_changed"
        THEN UpdateHomeAssistant([s EXCEPT !.isEnabled = evt.state])
        ELSE IF type = "automation_triggered"
        THEN HandleTriggerMessage(s, evt.data)
        ELSE s

-----------------------------------------------------------------------------
(* Integration notifications and close *)

\* onHaEventsOpen(): the slot is set to null; the unsubscribe capability is
\* not invoked.
OnHaEventsOpen(s) == [s EXCEPT !.subscription = 0]

\* EventsNode.onHaIntegration (base class): a loaded notification registers
\* the entity, an unloaded or not-loaded one marks the node unregistered.
SuperOnHaIntegration(s, type) ==
    IF type = "loaded" THEN RegisterEntity(s)
    ELSE [s EXCEPT !.registered = FALSE]

\* onHaIntegration that leaves isEnabled as it is.
OnHaIntegrationKeepsEnabled(s, type) ==
    LET s1 == SuperOnHaIntegration(s, type)
    IN  IF type \in {"unloaded", "notloaded"}
        THEN RemoveSubscription(s1)
        ELSE s1

\* onHaIntegration(type)
OnHaIntegration(s, type) ==
    LET s1 == SuperOnHaIntegration(s, type)
    IN  IF type \in {"unloaded", "notloaded"}
        THEN LET s2 == RemoveSubscription(s1)
             IN  IF nodeConfig.type # "trigger-state"
                 THEN [s2 EXCEPT !.isEnabled = "true"]
                 ELSE s2
        ELSE s1

\* EventsNode.onClose (base class): the node's listeners on the hub
\* connection are removed.
SuperOnClose(s) ==
    [s EXCEPT !.closed = TRUE,
              !.inFlightAtClose = {h \in Handles : s.hubSubs[h] = "pending"}]

\* onClose(removed)
OnClose(s, removed) ==
    LET s1 == SuperOnClose(s)
        s2 == IF removed /\ s1.isIntegrationLoaded
                 /\ nodeConfig.exposeToHomeAssistant
              THEN RemoveFromHomeAssistant(s1, TRUE)
              ELSE s1
    IN  RemoveSubscription(s2)


-----------------------------------------------------------------------------
(* Migrations of the stored configuration *)

\* `a || b`
Or(a, b) == IF Truthy(a) THEN a ELSE b

DefaultHaBoolean == "y|yes|true|on|home|open"

\* migrations[0].up
MigrationUp0(sc) == [sc EXCEPT !.version = "0"]

\* migrations[1].up
MigrationUp1(sc) ==
    [sc EXCEPT !.version = "1",
               !.ha_boolean = Or(sc.ha_boolean, DefaultHaBoolean),
               !.rejectUnauthorizedCerts =
                   Or(sc.rejectUnauthorizedCerts, "true"),
               !.connectionDelay = Or(sc.connectionDelay, "true"),
               !.cacheJson = Or(sc.cacheJson, "true")]

\* Stored configurations: of every version, each defaulted field absent,
\* or set to a falsy or to a truthy value, and one field no step names.
StoredSchemas ==
    [version : {Undefined, "0", "1"},
     ha_boolean : {Undefined, "", "on|open"},
     rejectUnauthorizedCerts : {Undefined, "true", "false"},
     connectionDelay : {Undefined, "true", "false"},
     cacheJson : {Undefined, "true", "false"},
     name : {Undefined, "Home Assistant"}]

\* The node specifications hold no stored configuration.
NoSchema ==
    [version |-> Undefined, ha_boolean |-> Undefined,
     rejectUnauthorizedCerts |-> Undefined, connectionDelay |-> Undefined,
     cacheJson |-> Undefined, name |-> Undefined]

-----------------------------------------------------------------------------
(* Inputs *)

NodeConfigs ==
    [type : NodeTypes, exposeToHomeAssistant : BOOLEAN,
     entityType : EntityTypes, wires : 0..MaxOutputs,
     entityId : {Undefined, "light.cached"}]

\* Configurations of the lifecycle specification: every node type,
\* exposure and entity type, one wiring.
LifecycleConfigs ==
    {c \in NodeConfigs : c.wires = 1 /\ c.entityId = "light.cached"}

PathStrings == UNION {[1..n -> PathChars] : n \in 1..MaxPathLen}

NoPath == [t |-> "undefined", s |-> <<>>]
StringPath(chars) == [t |-> "string", s |-> chars]

\* Trigger data: every combination of entity_id and skip_condition with a
\* few output paths, and every output path with a resolvable trigger that
\* skips the condition.
FieldTriggers ==
    [entity_id : {Undefined, Null, NotAString, "", "light.cached",
                  "light.unknown"},
     skip_condition : {Undefined, Null, "true", "false", NotABoolean},
     output_path : {NoPath, [t |-> "number", s |-> <<>>], StringPath(<<"1">>)}]
PathTriggers ==
    [entity_id : {"light.cached"},
     skip_condition : {"true"},
     output_path : {StringPath(p) : p \in PathStrings}]
TriggerData == FieldTriggers \cup PathTriggers

NoData == [entity_id |-> Undefined, skip_condition |-> Undefined,
           output_path |-> NoPath]

StateEvents == [type : {Undefined, "state_changed"}, state : StateValues,
                data : {NoData}]

TriggerEvent(data) ==
    [type |-> "automation_triggered", state |-> Undefined, data |-> data]

\* Events delivered in the lifecycle specification.
LifecycleEvents ==
    [type : {"state_changed"}, state : {"true", "false"}, data : {NoData}]
    \cup [type : {"other"}, state : {Undefined}, data : {NoData}]
    \cup {TriggerEvent(triggerData)}

\* Events delivered in the dispatch specification.
DispatchEvents ==
    StateEvents
    \cup [type : {Null, "other"}, state : {"false"}, data : {NoData}]
    \cup {TriggerEvent(triggerData)}

\* Configurations of the dispatch specification: an exposed node of every
\* wiring, with and without an entity id of its own.
DispatchConfigs ==
    {c \in NodeConfigs : /\ c.exposeToHomeAssistant
                         /\ c.entityType = "switch"
                         /\ c.type = "server-state-changed"}

-----------------------------------------------------------------------------
(* Actions *)

RECURSIVE Suspended(_, _)
Suspended(s, h) ==
    IF h = 0 THEN 0 ELSE s.awaiting[h] + Suspended(s, h - 1)

\* The calls suspended at an await are bounded: removeSubscription calls
\* over all handles, and handleTriggerMessage calls.
WithinBounds(s) ==
    /\ Suspended(s, MaxSubs) <= MaxAwaiting
    /\ s.validating <= MaxValidating
CanSubscribe(s) == SuperRegisterEntity(s) => FreeHandles(s) # {}

\* The state after construction of a node with configuration cfg on a
\* server whose registry holds prior for the node's id.
Constructed(cfg, prior, loaded, data) ==
    /\ nodeConfig = cfg
    /\ triggerData = data
    /\ LET s == InitNode(Constructor(cfg, prior, loaded))
       IN  /\ removeFromHA = s.removeFromHA
           /\ isEnabled = s.isEnabled
           /\ subscription = s.subscription
           /\ registered = s.registered
           /\ closed = s.closed
           /\ isIntegrationLoaded = s.isIntegrationLoaded
           /\ exposedNodes = s.exposedNodes
           /\ hubSubs = s.hubSubs
           /\ awaiting = s.awaiting
           /\ inFlightAtClose = s.inFlightAtClose
           /\ validating = s.validating
           /\ fx = s.fx

Init ==
    \E cfg \in LifecycleConfigs, prior \in {Undefined, "true", "false"},
       loaded \in BOOLEAN :
        Constructed(cfg, prior, loaded, NoData) /\ schema = NoSchema

\* A trigger that names its entity does not read the node's entity id:
\* the output paths are tried on nodes without one.
InitDispatch ==
    \E cfg \in DispatchConfigs, data \in TriggerData :
        /\ data \notin FieldTriggers => cfg.entityId = Undefined
        /\ Constructed(cfg, Undefined, TRUE, data)
        /\ schema = NoSchema

\* The hub connection reports the integration loaded.
IntegrationLoaded ==
    /\ ~closed
    /\ ~isIntegrationLoaded
    /\ LET s == [Begin("integration") EXCEPT !.isIntegrationLoaded = TRUE,
                                             !.fx.arg = "loaded"]
       IN  /\ CanSubscribe(s)
           /\ Commit(OnHaIntegration(s, "loaded"))

\* The hub connection reports the integration unloaded.
IntegrationUnloaded ==
    /\ ~closed
    /\ isIntegrationLoaded
    /\ LET s == [Begin("integration") EXCEPT !.isIntegrationLoaded = FALSE,
                                             !.fx.arg = "unloaded"]
           r == OnHaIntegration(s, "unloaded")
       IN  WithinBounds(r) /\ Commit(r)

\* The hub connection reports that the integration is not loaded.
IntegrationNotLoaded ==
    /\ ~closed
    /\ ~isIntegrationLoaded
    /\ LET s == [Begin("integration") EXCEPT !.fx.arg = "notloaded"]
           r == OnHaIntegration(s, "notloaded")
       IN  WithinBounds(r) /\ Commit(r)

\* A pending subscribeMessage resolves: the hub subscription is live and
\* registerEntity resumes.  Every caller of registerEntity leaves status at
\* its default, true.
SubscribeResolved ==
    \E h \in Handles :
        /\ hubSubs[h] = "pending"
        /\ LET s == [Begin("subscribeResolved") EXCEPT !.hubSubs[h] = "live",
                                                       !.fx.arg = h]
           IN  Commit(RegisterEntityResolved(s, h, TRUE))

\* A pending subscribeMessage rejects and registerEntity resumes in its
\* catch block.
SubscribeRejected ==
    \E h \in Handles :
        /\ hubSubs[h] = "pending"
        /\ LET s == [Begin("subscribeRejected") EXCEPT
                        !.hubSubs[h] = "unused", !.fx.arg = h]
           IN  Commit(RegisterEntityRejected(s))

\* The promise of one unsubscribe invocation settles and the
\* removeSubscription call awaiting it resumes.  The hub no longer serves
\* the subscription once an unsubscribe has settled: fulfilled, it ended
\* it; rejected, the hub did not know it or the connection is gone.  A
\* handle nothing waits for any more is free for reuse.
UnsubscribeSettled ==
    \E h \in Handles, outcome \in {"fulfilled", "rejected"} :
        /\ awaiting[h] > 0
        /\ LET s == [Begin("unsubscribeSettled") EXCEPT
                        !.awaiting[h] = @ - 1,
                        !.hubSubs[h] = IF awaiting[h] = 1 THEN "unused"
                                       ELSE "ended",
                        !.fx.arg = outcome]
           IN  Commit(RemoveSubscriptionResume(s, outcome))

\* The hub delivers an event to the handler of a live subscription.  For
\* a trigger the handler returns at the await of handleTriggerMessage.
Deliver(evt) ==
    /\ \E h \in Handles : hubSubs[h] \in {"live", "closing"}
    /\ LET r == OnHaEventMessage([Cur EXCEPT !.fx = [NoFx("event") EXCEPT
                                                        !.arg = evt]], evt)
       IN  WithinBounds(r) /\ Commit(r)

\* validateAsync settles and a suspended handleTriggerMessage resumes.
TriggerValidated ==
    /\ validating > 0
    /\ Commit(HandleTriggerMessageResume(
                  [Cur EXCEPT !.validating = @ - 1,
                              !.fx = [NoFx("trigger") EXCEPT
                                         !.arg = TriggerEvent(triggerData)]],
                  triggerData))

\* The hub connection reports that it is open: onHaEventsOpen().
EventsOpen ==
    /\ ~closed
    /\ Commit(OnHaEventsOpen(Begin("onHaEventsOpen")))

HubEvent == \E evt \in LifecycleEvents : Deliver(evt)

\* The host closes the node, once.
Close ==
    \E removed \in BOOLEAN :
        /\ ~closed
        /\ LET r == OnClose([Begin("onClose") EXCEPT !.fx.arg = removed],
                            removed)
           IN  WithinBounds(r) /\ Commit(r)

Next ==
    \/ IntegrationLoaded
    \/ IntegrationUnloaded
    \/ IntegrationNotLoaded
    \/ SubscribeResolved
    \/ SubscribeRejected
    \/ UnsubscribeSettled
    \/ HubEvent
    \/ TriggerValidated
    \/ EventsOpen
    \/ Close

Spec == Init /\ [][Next]_vars

\* The promises the node awaits settle: the runtime runs every
\* continuation whose promise has settled, and the hub connection answers
\* or fails every request.  Notifications, events and the close are the
\* environment's and are not forced.
Settle ==
    \/ SubscribeResolved
    \/ SubscribeRejected
    \/ UnsubscribeSettled
    \/ TriggerValidated

SpecLive == Init /\ [][Next]_vars /\ WF_vars(Settle)

\* The hub delivers any event, to a node that is registered, registering
\* or told that the integration was unloaded.
DispatchEvent == \E evt \in DispatchEvents : Deliver(evt)

NextDispatch ==
    \/ SubscribeResolved
    \/ IntegrationUnloaded
    \/ DispatchEvent
    \/ TriggerValidated

SpecDispatch == InitDispatch /\ [][NextDispatch]_vars

\* removeFromHomeAssistant called twice in succession.  The argument
\* recorded keeps what the first call sent and whether the second call
\* changed anything.
RemoveTwice ==
    \E first \in BOOLEAN, second \in BOOLEAN :
        LET s1 == RemoveFromHomeAssistant(Begin("removeFromHomeAssistant x2"),
                                          first)
            s2 == RemoveFromHomeAssistant(s1, second)
        IN  /\ WithinBounds(s2)
            /\ Commit([s2 EXCEPT !.fx.arg =
                          [first |-> first, second |-> second,
                           firstSent |-> Len(s1.fx.hubSent),
                           secondNoOp |-> (s2 = s1)]])

NextApi ==
    \/ IntegrationLoaded
    \/ IntegrationUnloaded
    \/ SubscribeResolved
    \/ UnsubscribeSettled
    \/ RemoveTwice

SpecApi == Init /\ [][NextApi]_vars

\* What a hub subscription of the instance being replaced becomes: the hub
\* keeps it, and whatever it does reaches the earlier instance.
Orphaned(status) ==
    CASE status = "pending" -> "pendingPrev"
      [] status = "live" -> "livePrev"
      [] status = "closing" -> "closingPrev"
      [] status = "ended" -> "endedPrev"
      [] OTHER -> status

\* A redeploy constructs the node again, with the same id, on the same
\* server and hub connection, once the previous instance is closed: the new
\* instance reads the registry at its id, where it finds what the previous
\* one wrote, and sees the server's integration state.  The constructor
\* touches nothing of the hub: the subscriptions and the suspended calls of
\* the previous instance stay.  The model follows the fields of the new
\* instance.
Redeploy ==
    \E cfg \in LifecycleConfigs, prior \in {Undefined, "true", "false"},
       loaded \in BOOLEAN,
       hub \in {[h \in Handles |-> Orphaned(hubSubs[h])]},
       suspended \in {awaiting}, atClose \in {inFlightAtClose} :
        /\ closed
        /\ prior = ReadRegistry(exposedNodes)
        /\ loaded = isIntegrationLoaded
        /\ nodeConfig' = cfg
        /\ UNCHANGED <<triggerData, schema>>
        /\ LET s == [Constructor(cfg, prior, loaded) EXCEPT
                        !.hubSubs = hub, !.awaiting = suspended,
                        !.inFlightAtClose = atClose]
           IN  CanSubscribe(s)' /\ Assign(InitNode(s)')

\* A subscribeMessage of an earlier instance settles: registerEntity
\* resumes in that instance, whose fields it writes; the hub serves the
\* subscription from then on, or not at all when it rejected.
PreviousSubscribeSettled ==
    \E h \in Handles, resolved \in BOOLEAN :
        /\ hubSubs[h] = "pendingPrev"
        /\ LET b == [Begin("previousSubscribeSettled") EXCEPT !.fx.arg = h]
               r == IF resolved THEN RegisterEntityResolved(b, h, TRUE)
                    ELSE RegisterEntityRejected(b)
           IN  Commit([b EXCEPT !.hubSubs[h] = IF resolved THEN "livePrev"
                                               ELSE "unused",
                               !.fx = r.fx])

\* An unsubscribe invoked by an earlier instance settles: removeSubscription
\* resumes in that instance and nulls its slot.
PreviousUnsubscribeSettled ==
    \E h \in Handles, outcome \in {"fulfilled", "rejected"} :
        /\ hubSubs[h] \in {"closingPrev", "endedPrev"}
        /\ awaiting[h] > 0
        /\ LET b == [Begin("previousUnsubscribeSettled") EXCEPT
                        !.fx.arg = outcome]
               r == RemoveSubscriptionResume(b, outcome)
           IN  Commit([b EXCEPT !.awaiting[h] = @ - 1,
                               !.hubSubs[h] = IF awaiting[h] = 1
                                              THEN "unused" ELSE "endedPrev",
                               !.fx = r.fx])

NextRedeploy ==
    \/ IntegrationLoaded
    \/ IntegrationUnloaded
    \/ SubscribeResolved
    \/ Close
    \/ Redeploy
    \/ PreviousSubscribeSettled
    \/ PreviousUnsubscribeSettled

\* The first deployment: the registry has no entry for the node's id.
InitFirstDeploy ==
    \E cfg \in LifecycleConfigs, loaded \in BOOLEAN :
        Constructed(cfg, Undefined, loaded, NoData) /\ schema = NoSchema

SpecRedeploy == InitFirstDeploy /\ [][NextRedeploy]_vars

\* A node the migration specification leaves alone.
IdleConfig ==
    [type |-> "server-state-changed", exposeToHomeAssistant |-> FALSE,
     entityType |-> Undefined, wires |-> 1, entityId |-> "light.cached"]

InitMigrate ==
    /\ schema \in StoredSchemas
    /\ Constructed(IdleConfig, Undefined, FALSE, NoData)

\* The fields of the node, which no migration step touches.
nodeFields ==
    <<nodeConfig, removeFromHA, isEnabled, subscription, registered, closed,
      isIntegrationLoaded, exposedNodes, hubSubs, awaiting, inFlightAtClose,
      validating, triggerData>>

\* The version-0 step applied to the stored configuration.
Up0 ==
    /\ schema' = MigrationUp0(schema)
    /\ fx' = [NoFx("migration") EXCEPT !.arg = "0"]
    /\ UNCHANGED nodeFields

\* The version-1 step applied to the stored configuration.
Up1 ==
    /\ schema' = MigrationUp1(schema)
    /\ fx' = [NoFx("migration") EXCEPT !.arg = "1"]
    /\ UNCHANGED nodeFields

NextMigrate ==
    \/ Up0
    \/ Up1

SpecMigrate == InitMigrate /\ [][NextMigrate]_vars

-----------------------------------------------------------------------------
(* Properties *)

LiveHandles == {h \in Handles : hubSubs[h] = "live"}
NothingPending ==
    \A h \in Handles : hubSubs[h] # "pending" /\ awaiting[h] = 0
RemoveSent == \E i \in 1..Len(fx.hubSent) : fx.hubSent[i].remove
\* A handleTriggerMessage call has resumed after its validation.
TriggerFired == fx.op = "trigger"
\* The step delivers an automation_triggered event.
TriggerDelivered ==
    fx'.op = "event" /\ fx'.arg.type = "automation_triggered"

\* C1: the subscriptions of the node that were acquired and whose
\* unsubscribe was never invoked number at most one, in every state.
C1_AtMostOneLiveSubscription == Cardinality(LiveHandles) <= 1

\* C2: once the node is closed and nothing is pending, the handle slot is
\* null and no subscription whose subscribe was in flight at onClose is
\* live.
C2_LateHandleReleased ==
    (closed /\ NothingPending) =>
        /\ subscription = 0
        /\ \A h \in inFlightAtClose : hubSubs[h] # "live"

\* C3: onClose invokes the unsubscribe capability of the held handle at
\* most once, although it reaches removeSubscription twice.
C3_UnsubscribeInvokedOnce ==
    fx.op = "onClose" => Len(fx.unsubscribed) <= 1

\* C4: removeSubscription never fails and always clears the handle: a call
\* that resumes after its unsubscribe settled, fulfilled or rejected,
\* completes with the slot null and no error; a call with no handle held
\* invokes nothing and leaves the slot null.
C4_RemoveSubscriptionClears ==
    /\ fx.op = "unsubscribeSettled" =>
          /\ ~fx.rejected
          /\ fx.completed = <<"removeSubscription">>
    /\ fx.completed # <<>> => subscription = 0 /\ ~fx.rejected
    /\ (fx.completed # <<>> /\ fx.op # "unsubscribeSettled") =>
          fx.unsubscribed = <<>>

C4_Witness ==
    /\ fx.op = "unsubscribeSettled"
    /\ fx.arg = "rejected"
    /\ subscription = 0

\* C5 as stated: when the first of two successive removeFromHomeAssistant
\* calls sends the remove message, exactly one is sent and the second call
\* is a no-op.
C5_SecondCallNoOp ==
    (fx.op = "removeFromHomeAssistant x2" /\ fx.arg.firstSent = 1) =>
        Len(fx.hubSent) = 1 /\ fx.arg.secondNoOp

\* C5 as amended: when the first of two successive removeFromHomeAssistant
\* calls sends the remove message and the second call is made without
\* nodeRemoved, exactly one message is sent and the second call is a no-op.
C5_SecondFlagCallNoOp ==
    (fx.op = "removeFromHomeAssistant x2" /\ fx.arg.firstSent = 1
        /\ ~fx.arg.second) =>
        Len(fx.hubSent) = 1 /\ fx.arg.secondNoOp

C5_Witness ==
    /\ fx.op = "removeFromHomeAssistant x2"
    /\ ~fx.arg.first /\ ~fx.arg.second
    /\ fx.arg.firstSent = 1
    /\ Len(fx.hubSent) = 1
    /\ ~removeFromHA

\* C6: for a node that is not trigger-state, isEnabled is true right after
\* an unloaded or not-loaded notification and right after an operation that
\* sent the remove message.
C6_EnabledAfterDeregistration ==
    nodeConfig.type # "trigger-state" =>
        /\ (fx.op = "integration" /\ fx.arg \in {"unloaded", "notloaded"}) =>
              isEnabled = "true"
        /\ RemoveSent => isEnabled = "true"

C6_Witness ==
    /\ nodeConfig.type # "trigger-state"
    /\ fx.op = "integration" /\ fx.arg = "unloaded"
    /\ fx.was = "false"
    /\ isEnabled = "true"

\* What C7 and C8 say of a trigger, computed from the trigger data alone.
ClaimResolves(data) ==
    /\ data.entity_id \notin {NotAString, ""}
    /\ data.skip_condition \notin {NotABoolean, Null}
    /\ data.output_path.t # "number"
    /\ \/ data.entity_id = "light.cached"
       \/ (data.entity_id \in {Undefined, Null}
              /\ nodeConfig.entityId = "light.cached")
ClaimPath(data) ==
    IF data.output_path.t = "string" THEN data.output_path.s ELSE <<"0">>
ClaimTokens(data) == SplitComma(ClaimPath(data), <<>>)
IsIndexList(data) ==
    \A i \in 1..Len(ClaimTokens(data)) :
        /\ ClaimTokens(data)[i] # <<>>
        /\ \A j \in 1..Len(ClaimTokens(data)[i]) :
              ClaimTokens(data)[i][j] \in Digits
KeptPositions(data) ==
    {i \in 1..Len(ClaimTokens(data)) :
        DecimalValue(ClaimTokens(data)[i], 0) <= nodeConfig.wires}
KeptIndices(data) ==
    {DecimalValue(ClaimTokens(data)[i], 0) : i \in KeptPositions(data)}
FanOutCase ==
    /\ TriggerFired
    /\ Truthy(isEnabled)
    /\ ClaimResolves(triggerData)
    /\ triggerData.skip_condition = "true"
    /\ IsIndexList(triggerData)
BroadcastOrPositional(payload, kept) ==
    /\ payload.shape = "array"
    /\ payload.ports =
          [i \in 1..nodeConfig.wires |->
              IF 0 \in kept THEN "[msg]"
              ELSE IF i \in kept THEN "msg" ELSE "null"]
FanOutAsClaimed(bare) ==
    LET kept == KeptIndices(triggerData)
    IN  IF nodeConfig.wires = 0 \/ kept = {}
        THEN fx.sent = <<>>
        ELSE /\ Len(fx.sent) = 1
             /\ fx.sent[1].msg.topic = "light.cached"
             /\ IF bare THEN fx.sent[1].shape = "bare"
                ELSE BroadcastOrPositional(fx.sent[1], kept)

\* C7 as stated: the bare message is sent when the set of remaining
\* indices is exactly {1}.
C7_FanOutByIndexSet ==
    FanOutCase => FanOutAsClaimed(KeptIndices(triggerData) = {1})

\* C7 as amended: the bare message is sent when exactly one index remains
\* and it is 1; otherwise an array of length n: every element [msg] if 0
\* remains, else msg at the remaining indices and null elsewhere; nothing
\* is sent when n is 0 or no index remains.
C7_FanOutByIndexList ==
    FanOutCase =>
        FanOutAsClaimed(/\ KeptIndices(triggerData) = {1}
                        /\ Cardinality(KeptPositions(triggerData)) = 1)

C7_Witness ==
    /\ FanOutCase
    /\ triggerData.output_path.s = <<"1", ",", "1">>
    /\ nodeConfig.wires = 2
    /\ Len(fx.sent) = 1
    /\ fx.sent[1].ports = <<"msg", "null">>

\* C8: an enabled node given a valid trigger that resolves to a cached
\* entity, with skip_condition false or absent, calls triggerNode once
\* with the event envelope, sends nothing and sets no status.
C8_NoFanOutWithoutSkip ==
    (/\ TriggerFired
     /\ Truthy(isEnabled)
     /\ ClaimResolves(triggerData)
     /\ triggerData.skip_condition \in {Undefined, "false"}) =>
        /\ fx.triggered = <<EventMessage(GetStates("light.cached"))>>
        /\ fx.sent = <<>>
        /\ fx.status = <<>>
        /\ fx.errors = <<>>

C8_Witness ==
    /\ TriggerFired
    /\ Truthy(isEnabled)
    /\ triggerData.entity_id = Undefined
    /\ triggerData.skip_condition = Undefined
    /\ Len(fx.triggered) = 1
    /\ fx.sent = <<>>

\* C9: an automation_triggered event delivered while isEnabled is falsy
\* does nothing: no triggerNode, no send, no status, no error, nothing to
\* the hub, and no handleTriggerMessage call is left to do any of it
\* later.
C9_DisabledIgnoresTrigger ==
    [][(TriggerDelivered /\ ~Truthy(isEnabled)) =>
          /\ fx'.triggered = <<>>
          /\ fx'.sent = <<>>
          /\ fx'.status = <<>>
          /\ fx'.errors = <<>>
          /\ fx'.hubSent = <<>>
          /\ validating' = validating]_vars

C9_Witness ==
    /\ fx.op = "event"
    /\ fx.arg.type = "automation_triggered"
    /\ isEnabled = "false"
    /\ validating = 0
    /\ triggerData.entity_id = "light.cached"
    /\ triggerData.skip_condition = "true"
    /\ triggerData.output_path.s = <<"1">>
    /\ nodeConfig.wires >= 1
    /\ fx.sent = <<>>

\* C10: from every reachable state, an event without a type and with state
\* s leaves the node in the same state, with the same messages sent, as
\* the event {type: 'state_changed', state: s}.
C10_UntypedIsStateChanged ==
    \A st \in StateValues :
        LET s0 == [Cur EXCEPT !.fx = NoFx("event")]
        IN  OnHaEventMessage(s0, [type |-> Undefined, state |-> st,
                                  data |-> NoData])
            = OnHaEventMessage(s0, [type |-> "state_changed", state |-> st,
                                    data |-> NoData])

C10_Witness ==
    /\ fx.op = "event"
    /\ fx.arg.type = Undefined
    /\ fx.arg.state = "false"
    /\ isEnabled = "false"
    /\ Len(fx.hubSent) = 1
    /\ fx.hubSent[1].type = "nodered/entity"
    /\ fx.hubSent[1].state = "false"

\* The effects an operation can have outside the node's fields.
NothingEmitted(f) ==
    /\ f.hubSent = <<>>
    /\ f.sent = <<>>
    /\ f.triggered = <<>>
    /\ f.status = <<>>
    /\ f.errors = <<>>
    /\ f.unsubscribed = <<>>
    /\ ~f.rejected

\* C11: an event whose type is present and is neither state_changed nor
\* automation_triggered leaves isEnabled, the handle slot and the removal
\* flag as they were, sends nothing to the hub or downstream, and raises
\* or logs no error.
C11_UnknownTypeIgnored ==
    [][(/\ fx'.op = "event"
        /\ fx'.arg.type \notin {Undefined, "state_changed",
                                "automation_triggered"}) =>
          /\ isEnabled' = isEnabled
          /\ subscription' = subscription
          /\ removeFromHA' = removeFromHA
          /\ registered' = registered
          /\ validating' = validating
          /\ NothingEmitted(fx')]_vars

C11_Witness ==
    /\ fx.op = "event"
    /\ fx.arg.type = "other"
    /\ isEnabled = "false"
    /\ subscription # 0
    /\ NothingEmitted(fx)

\* A trigger that C12 calls failing: it does not validate, or neither its
\* entity_id nor the node's default gives an id, or the id is not in the
\* state cache.
ClaimFails(data) ==
    \/ data.entity_id \in {NotAString, ""}
    \/ data.skip_condition \in {NotABoolean, Null}
    \/ data.output_path.t = "number"
    \/ (data.entity_id \in {Undefined, Null}
           /\ nodeConfig.entityId = Undefined)
    \/ (data.entity_id \notin {Undefined, Null}
           /\ data.entity_id \notin CachedEntities)
\* The handler of a failing trigger goes on to validate it.
FailingTriggerTaken ==
    /\ validating' = validating + 1
    /\ isEnabled' = isEnabled
    /\ subscription' = subscription
\* A handleTriggerMessage call resumes with a failing trigger.
FailedTrigger == fx'.op = "trigger" /\ ClaimFails(fx'.arg.data)
ReportedAndDropped ==
    /\ fx'.status = <<"failed:Error">>
    /\ fx'.errors = <<"Trigger Error">>
    /\ fx'.sent = <<>>
    /\ fx'.triggered = <<>>
    /\ fx'.hubSent = <<>>
    /\ isEnabled' = isEnabled
    /\ subscription' = subscription

\* C12 as stated: every failing trigger delivered is validated, sets a
\* failed status and logs an error, and is dropped: nothing is sent,
\* triggerNode is not called, isEnabled and the handle slot are unchanged.
C12_FailingTriggerReported ==
    [][/\ (TriggerDelivered /\ ClaimFails(fx'.arg.data)) =>
             FailingTriggerTaken
       /\ FailedTrigger => ReportedAndDropped]_vars

\* C12 as amended: a failing trigger delivered while isEnabled is truthy
\* is validated, sets a failed status and logs an error, and is dropped:
\* nothing is sent, triggerNode is not called, isEnabled and the handle
\* slot are unchanged.
C12_EnabledFailingTriggerReported ==
    [][/\ (TriggerDelivered /\ ClaimFails(fx'.arg.data)
              /\ Truthy(isEnabled)) => FailingTriggerTaken
       /\ FailedTrigger => ReportedAndDropped]_vars

C12_Witness ==
    /\ TriggerFired
    /\ triggerData.entity_id = "light.unknown"
    /\ triggerData.skip_condition = "true"
    /\ isEnabled = "on"
    /\ fx.status = <<"failed:Error">>
    /\ fx.errors = <<"Trigger Error">>
    /\ fx.sent = <<>>

\* A step in which the node calls subscribeMessage.
SubscribeAttempted ==
    \E h \in Handles : hubSubs[h] # "pending" /\ hubSubs'[h] = "pending"

\* C13: when the subscribe of registerEntity rejects, the node sets a
\* failed status and logs the error, the handle slot and registered stay
\* as they were (null and false for a node not registered otherwise), no
\* error reaches the caller, and the node subscribes again only in an
\* integration-loaded notification.
C13_SubscribeFailureHandled ==
    [][/\ fx'.op = "subscribeRejected" =>
             /\ fx'.status = <<"failed:error">>
             /\ fx'.errors = <<"subscribe">>
             /\ ~fx'.rejected
             /\ subscription' = subscription
             /\ registered' = registered
             /\ ~SubscribeAttempted
       /\ SubscribeAttempted =>
             (fx'.op = "integration" /\ fx'.arg = "loaded")]_vars

C13_Witness ==
    /\ fx.op = "subscribeRejected"
    /\ fx.status = <<"failed:error">>
    /\ subscription = 0
    /\ ~registered
    /\ ~closed
    /\ isIntegrationLoaded
    /\ \A h \in Handles : hubSubs[h] = "unused"

\* The removal flag the constructor computed: init() clears it only by
\* sending the remove message.
FlagComputed(flag, f) ==
    flag \/ \E i \in 1..Len(f.hubSent) : f.hubSent[i].remove

\* C14: the removal flag of a newly constructed instance is true exactly
\* when the registry held true for the node's id, written by the previous
\* instance, and the new exposure is false; with no previous entry it is
\* false.
C14_RemovalFlagFromRegistry ==
    /\ [](fx.op = "constructor" =>
            (FlagComputed(removeFromHA, fx) <=>
                (fx.arg = "true" /\ ~nodeConfig.exposeToHomeAssistant)))
    /\ [][fx'.op = "constructor" =>
            (FlagComputed(removeFromHA', fx') <=>
                (exposedNodes = "true"
                    /\ ~nodeConfig'.exposeToHomeAssistant))]_vars

\* A redeployed instance that found true in the registry, is now hidden,
\* and keeps the flag because the integration is not loaded.
C14_Witness ==
    /\ fx.op = "constructor"
    /\ fx.arg = "true"
    /\ ~nodeConfig.exposeToHomeAssistant
    /\ exposedNodes = "false"
    /\ removeFromHA
    /\ ~isIntegrationLoaded

\* The three conditions of C15 in state s, for a call with nodeRemoved.
MayRemove(s, nodeRemoved) ==
    /\ s.isIntegrationLoaded
    /\ (s.removeFromHA \/ nodeRemoved)
    /\ nodeConfig.entityType \in {Undefined, "switch"}

\* C15: a remove message is sent only with the integration loaded, the
\* removal flag set (at construction) or the node being deleted (at
\* close), and an entityType that is unset or 'switch'; and from every
\* reachable state a removeFromHomeAssistant call made while one of the
\* three fails sends nothing and changes nothing, while a call made when
\* all hold sends one remove message.
C15_RemoveOnlyWhenAllowed ==
    /\ RemoveSent =>
          /\ isIntegrationLoaded
          /\ nodeConfig.entityType \in {Undefined, "switch"}
          /\ \/ fx.op = "onClose" /\ fx.arg = TRUE
             \/ /\ fx.op = "constructor"
                /\ fx.arg = "true" /\ ~nodeConfig.exposeToHomeAssistant
          /\ Len(fx.hubSent) = 1
    /\ \A nodeRemoved \in BOOLEAN :
          LET s0 == [Cur EXCEPT !.fx = NoFx("removeFromHomeAssistant")]
              r == RemoveFromHomeAssistant(s0, nodeRemoved)
          IN  IF MayRemove(s0, nodeRemoved)
              THEN r.fx.hubSent = <<GetDiscoveryPayload(s0, TRUE)>>
              ELSE r = s0

C15_Witness ==
    /\ fx.op = "onClose" /\ fx.arg = TRUE
    /\ RemoveSent
    /\ nodeConfig.entityType = Undefined
    /\ nodeConfig.exposeToHomeAssistant
    /\ isIntegrationLoaded
    /\ ~removeFromHA

\* C16: for a trigger-state node, isEnabled after an unloaded or
\* not-loaded notification, and after a close that sent the remove
\* message, is the value the node held before it.
C16_TriggerStateKeepsEnabled ==
    (/\ nodeConfig.type = "trigger-state"
     /\ \/ fx.op = "integration" /\ fx.arg \in {"unloaded", "notloaded"}
        \/ fx.op = "onClose" /\ RemoveSent) =>
        isEnabled = fx.was

\* C17: a removeSubscription call that resumes while the slot holds a live
\* subscription, stored by a later registerEntity, leaves the slot as it
\* is.
C17_LiveSubscriptionHeld ==
    [][(fx'.op = "unsubscribeSettled" /\ subscription \in LiveHandles) =>
          subscription' = subscription]_vars

\* C18: an event delivered to a closed node, and a trigger whose handling
\* resumes on a closed node, cause no send, no triggerNode and no message
\* to the hub.
C18_ClosedNodeSilent ==
    (closed /\ fx.op \in {"event", "trigger"}) =>
        /\ fx.sent = <<>>
        /\ fx.triggered = <<>>
        /\ fx.hubSent = <<>>

\* A removal the constructor found due and that nothing prevents: the flag
\* is set, the integration is loaded, the node is open and its entityType
\* is unset or 'switch'.
RemovalDue ==
    /\ removeFromHA
    /\ isIntegrationLoaded
    /\ ~closed
    /\ nodeConfig.entityType \in {Undefined, "switch"}

\* C19: once the integration is loaded, a node whose removal flag is set
\* sends the remove message, unless it is closed or the integration is
\* unloaded first.
C19_PendingRemovalSent ==
    RemovalDue ~> (RemoveSent \/ closed \/ ~isIntegrationLoaded)

DefaultedFields ==
    {"ha_boolean", "rejectUnauthorizedCerts", "connectionDelay", "cacheJson"}

\* C20: the version-1 step sets version to 1, keeps every value the stored
\* configuration has for a defaulted field, false and the empty string
\* included, fills only the fields that have no value, and leaves every
\* other field as it was.
C20_ExplicitValuesKept ==
    [][(fx'.op = "migration" /\ fx'.arg = "1") =>
          /\ schema'.version = "1"
          /\ \A f \in DefaultedFields :
                schema[f] # Undefined => schema'[f] = schema[f]
          /\ schema'.ha_boolean # Undefined
          /\ schema'.name = schema.name]_vars

=============================================================================
